---- MODULE Spec2Model ----
(***************************************************************************)
(* A model of fogfish/guid: k-ordered identifiers.                         *)
(*                                                                         *)
(* A uint64 is modelled exactly, as the set of the positions (0..63) of    *)
(* its one bits, so that shifts drop the bits Go drops and no arithmetic   *)
(* of the model can overflow.  Small quantities (shift counts, cells of a  *)
(* split, the sequence counter) are plain integers.                        *)
(***************************************************************************)
EXTENDS Integers, Sequences, FiniteSets

VARIABLES
    unique,     \* the process-wide counter behind uniqueInt
    loc,        \* the node id of the clock: what its L() returns
    bound,      \* the drift argument the caller passes: <<>> or <<duration>>
    a, b,       \* the identifiers the caller holds, with what they were built from
    res,        \* the encodings and decodings the caller computed
    pc          \* the caller's position

vars == <<unique, loc, bound, a, b, res, pc>>

(***************************************************************************)
(* uint64 arithmetic                                                       *)
(***************************************************************************)
Bits == 0..63

Zero == {}

\* w << k and w >> k of Go: a count of 64 or more (a wrapped negative count
\* is such a count) leaves nothing
Shl(w, k) == IF k < 0 \/ k > 63 THEN {} ELSE {i + k : i \in {j \in w : j + k <= 63}}

Shr(w, k) == IF k < 0 \/ k > 63 THEN {} ELSE {i - k : i \in {j \in w : j >= k}}

Or(x, y) == x \cup y

And(x, y) == x \cap y

\* (1 << n) - 1
Mask(n) == {i \in Bits : i < n}

\* the word of a natural number below 2^31
FromNat(n) == {i \in 0..30 : (n \div (2 ^ i)) % 2 = 1}

\* the natural number of a word below 2^31
ToNat(w) ==
    LET sum[i \in 0..31] == IF i = 31 THEN 0 ELSE (IF i \in w THEN 2 ^ i ELSE 0) + sum[i + 1]
    IN  IF w = {} THEN 0 ELSE sum[0]

\* unsigned x < y: the highest bit in which they differ is a bit of y
Lt(x, y) == \E i \in y \ x : \A j \in x \ y : j < i

Le(x, y) == x = y \/ Lt(x, y)

\* x + y modulo 2^64
Add(x, y) ==
    LET c[i \in 0..64] ==
            IF i = 0 THEN FALSE
            ELSE LET j == i - 1
                 IN  (j \in x /\ j \in y) \/ ((j \in x \/ j \in y) /\ c[j])
    IN  {i \in Bits : ((i \in x) # (i \in y)) # c[i]}

\* x - y modulo 2^64
Sub(x, y) ==
    LET br[i \in 0..64] ==
            IF i = 0 THEN FALSE
            ELSE LET j == i - 1
                 IN  (j \notin x /\ j \in y) \/ ((j \notin x \/ j \in y) /\ br[j])
    IN  {i \in Bits : ((i \in x) # (i \in y)) # br[i]}

\* a word written as four 16-bit limbs, most significant first
W4(p, q, r, s) ==
    Or(Or(Shl(FromNat(p), 48), Shl(FromNat(q), 32)), Or(Shl(FromNat(r), 16), FromNat(s)))

RECURSIVE MulNat(_, _)
\* w * n modulo 2^64, n a natural number
MulNat(w, n) ==
    IF n = 0 THEN {} ELSE Add(IF n % 2 = 1 THEN w ELSE {}, MulNat(Shl(w, 1), n \div 2))

\* signed (int64) x <= y
SLe(x, y) == IF (63 \in x) # (63 \in y) THEN 63 \in x ELSE Le(x, y)

(***************************************************************************)
(* Durations (time.Duration: int64 nanoseconds)                            *)
(***************************************************************************)
Second == FromNat(1000000000)

Seconds(n) == MulNat(Second, n)

(***************************************************************************)
(* The drift table and the bit surgery                                     *)
(***************************************************************************)
driftZ == 18

bitsDrift == 3

bitsSeq == 14

bitsSeqDrift == bitsSeq + bitsDrift

bytesInG == 12

bytesInL == 8

Sec34 == Seconds(34)
Sec68 == Seconds(68)
Sec137 == Seconds(137)
Sec274 == Seconds(274)
Sec549 == Seconds(549)
Sec1099 == Seconds(1099)
Sec2199 == Seconds(2199)

\* drift is the variadic argument: <<>> or <<duration>>
\* driftInBits comparing the durations as unsigned numbers
driftInBits_unsigned(drift) ==
    CASE Len(drift) = 0 -> driftZ + 3
      [] OTHER ->
         IF Le(drift[1], Sec34) THEN driftZ
         ELSE IF Le(drift[1], Sec68) THEN driftZ + 1
         ELSE IF Le(drift[1], Sec137) THEN driftZ + 2
         ELSE IF Le(drift[1], Sec274) THEN driftZ + 3
         ELSE IF Le(drift[1], Sec549) THEN driftZ + 4
         ELSE IF Le(drift[1], Sec1099) THEN driftZ + 5
         ELSE IF Le(drift[1], Sec2199) THEN driftZ + 6
         ELSE driftZ + 7

driftInBits(drift) ==
    CASE Len(drift) = 0 -> driftZ + 3
      [] OTHER ->
         IF SLe(drift[1], Sec34) THEN driftZ
         ELSE IF SLe(drift[1], Sec68) THEN driftZ + 1
         ELSE IF SLe(drift[1], Sec137) THEN driftZ + 2
         ELSE IF SLe(drift[1], Sec274) THEN driftZ + 3
         ELSE IF SLe(drift[1], Sec549) THEN driftZ + 4
         ELSE IF SLe(drift[1], Sec1099) THEN driftZ + 5
         ELSE IF SLe(drift[1], Sec2199) THEN driftZ + 6
         ELSE driftZ + 7

\* splitT leaving no room for the node bits under the high bits of the time
splitT_noroom(t, drift) ==
    LET x  == Shr(t, 14 + 3)
        sa == 64 - 14 - drift
        lo == Shr(Shl(x, sa + 14), sa)
        hi == Shr(x, drift)
        dd == Shl(FromNat(drift - driftZ), 29)
    IN  <<Or(hi, dd), lo>>

\* splitT leaving the drift class out of hi
splitT_plain(t, drift) ==
    LET x  == Shr(t, 14 + 3)
        sa == 64 - 14 - drift
        sb == 32 - sa
        lo == Shr(Shl(x, sa + 14), sa)
        hi == Shl(Shr(x, drift), sb)
    IN  <<hi, lo>>

\* <<hi, lo>> of the timestamp
splitT(t, drift) ==
    LET x  == Shr(t, 14 + 3)
        sa == 64 - 14 - drift
        sb == 32 - sa
        lo == Shr(Shl(x, sa + 14), sa)
        hi == Shl(Shr(x, drift), sb)
        dd == Shl(FromNat(drift - driftZ), 29)
    IN  <<Or(hi, dd), lo>>

\* <<hi, lo>> of the node id
splitNode(node, drift) ==
    LET sa == 64 - 14 - drift
        sb == 32 - sa
        lo == Shl(node, drift + 14)
        hi == Shr(node, 32 - sb)
    IN  <<hi, lo>>

(***************************************************************************)
(* K, its constructors and lenses                                          *)
(***************************************************************************)
MkK(hi, lo) == [Hi |-> hi, Lo |-> lo]

\* makeG writing the drift class into the top 3 bits of Hi as well
makeG_top(n, drift, t, seq) ==
    LET T == splitT(t, drift)
        N == splitNode(n, drift)
    IN  MkK(Or(Or(T[1], N[1]), Shl(FromNat(drift - driftZ), 61)),
            Or(Or(N[2], T[2]), seq))

makeG(n, drift, t, seq) ==
    LET T == splitT(t, drift)
        N == splitNode(n, drift)
    IN  MkK(Or(T[1], N[1]), Or(Or(N[2], T[2]), seq))

\* makeL dropping 14 bits of the time instead of 17
makeL_14(drift, t, seq) ==
    LET d == Shl(FromNat(drift - driftZ), 61)
        x == Shl(Shr(t, bitsSeq), bitsSeq)
    IN  MkK(Zero, Or(Or(d, x), seq))

makeL(drift, t, seq) ==
    LET d == Shl(FromNat(drift - driftZ), 61)
        x == Shl(Shr(t, bitsSeqDrift), bitsSeq)
    IN  MkK(Zero, Or(Or(d, x), seq))

\* a clock is the node id its L() returns; ts is the pair <<t, seq>> its T() returned
Z(drift) == makeG(Zero, driftInBits(drift), Zero, Zero)

G(location, drift, ts) == makeG(location, driftInBits(drift), ts[1], ts[2])

L(drift, ts) == makeL(driftInBits(drift), ts[1], ts[2])

Equal(x, y) == x.Hi = y.Hi /\ x.Lo = y.Lo

\* Before comparing the words separately
Before_each(x, y) == Le(x.Hi, y.Hi) /\ Lt(x.Lo, y.Lo)

\* Before comparing the low words only
Before_lo(x, y) == Lt(x.Lo, y.Lo)

\* After comparing each word on its own
After_each(x, y) == Le(y.Hi, x.Hi) /\ Lt(y.Lo, x.Lo)

Before(x, y) == Lt(x.Hi, y.Hi) \/ (x.Hi = y.Hi /\ Lt(x.Lo, y.Lo))

After(x, y) == Lt(y.Hi, x.Hi) \/ (x.Hi = y.Hi /\ Lt(y.Lo, x.Lo))

\* (uid.Hi >> 29) + driftZ
driftOfG(uid) == ToNat(Shr(uid.Hi, 29)) + driftZ

\* (uid.Lo >> 61) + driftZ
driftOfL(uid) == ToNat(Shr(uid.Lo, 61)) + driftZ

\* timeL shifting back by bitsSeq
timeL_14(uid) == Shl(Shr(Shl(uid.Lo, 3), bitsSeqDrift), bitsSeq)

timeG(uid) ==
    LET d  == driftOfG(uid)
        sa == 64 - bitsSeq - d
        sb == 32 - sa
        hi == Shl(Shr(uid.Hi, sb), d)
        lo == Shr(Shl(uid.Lo, sa), 64 - d)
    IN  Shl(Or(hi, lo), bitsSeqDrift)

timeL(uid) == Shl(Shr(Shl(uid.Lo, 3), bitsSeqDrift), bitsSeqDrift)

Time(uid) == IF uid.Hi = Zero THEN timeL(uid) ELSE timeG(uid)

Node(uid) ==
    IF uid.Hi = Zero THEN Zero
    ELSE LET d  == driftOfG(uid)
             sa == 64 - bitsSeq - d
             sb == 32 - sa
             lo == Shr(uid.Lo, d + bitsSeq)
             hi == Shr(Shl(uid.Hi, 64 - sb), 64 - sb - sa)
         IN  Or(hi, lo)

\* Seq reading 13 bits
SeqOf_13(uid) == And(uid.Lo, Mask(13))

\* Seq of the source (the name Seq is taken by Sequences): uid.Lo & 0x3fff
SeqOf(uid) == And(uid.Lo, Mask(14))

Diff(x, y) ==
    LET t == Sub(Time(x), Time(y))
        s == Sub(SeqOf(x), SeqOf(y))
    IN  IF x.Hi # Zero /\ y.Hi # Zero
        THEN makeG(Node(x), driftOfG(x), t, s)
        ELSE makeL(driftOfL(x), t, s)

FromL(location, uid) ==
    IF uid.Hi # Zero THEN uid
    ELSE makeG(location, driftOfL(uid), Time(uid), SeqOf(uid))

ToL(uid) ==
    IF uid.Hi = Zero THEN uid
    ELSE makeL(driftOfG(uid), Time(uid), SeqOf(uid))

\* unixNano is uint64(t.UnixNano())
FromT(unixNano, drift) == makeL(driftInBits(drift), unixNano, Zero)

(***************************************************************************)
(* The codec: cells of n bits, bytes and text                              *)
(***************************************************************************)
hilo == 64

\* byte(w): the low 8 bits
ByteOf(w) == {i \in w : i < 8}

\* a byte as a natural number, and back
ByteNat(w) ==
    (IF 0 \in w THEN 1 ELSE 0) + (IF 1 \in w THEN 2 ELSE 0) + (IF 2 \in w THEN 4 ELSE 0)
    + (IF 3 \in w THEN 8 ELSE 0) + (IF 4 \in w THEN 16 ELSE 0) + (IF 5 \in w THEN 32 ELSE 0)
    + (IF 6 \in w THEN 64 ELSE 0) + (IF 7 \in w THEN 128 ELSE 0)

NatByte(n) == {i \in 0..7 : (n \div (2 ^ i)) % 2 = 1}

\* splitCell dropping the bits of hi from the cell that lies across hi and lo
splitCell_lo(hi, lo, size, n, i) ==
    LET ca   == size - (i - 1) * n
        cb   == ca - n
        mask == Mask(n)
    IN  IF ca >= hilo /\ cb >= hilo
          THEN ByteNat(ByteOf(And(Shr(hi, cb - hilo), mask)))
        ELSE IF ca <= hilo /\ cb <= hilo
          THEN ByteNat(ByteOf(And(Shr(lo, cb), mask)))
        ELSE IF ca > hilo /\ cb < hilo
          THEN ByteNat(ByteOf(Shr(lo, cb)))
        ELSE 0

\* the i-th cell (from 1) written by split(hi, lo, size, n): a runs from size
\* down to n in steps of n
splitCell(hi, lo, size, n, i) ==
    LET ca   == size - (i - 1) * n
        cb   == ca - n
        mask == Mask(n)
    IN  IF ca >= hilo /\ cb >= hilo
          THEN ByteNat(ByteOf(And(Shr(hi, cb - hilo), mask)))
        ELSE IF ca <= hilo /\ cb <= hilo
          THEN ByteNat(ByteOf(And(Shr(lo, cb), mask)))
        ELSE IF ca > hilo /\ cb < hilo
          THEN LET suffix == Mask(ca - hilo)
                   h      == ByteOf(And(hi, suffix))
                   l      == ByteOf(Shr(lo, cb))
               IN  ByteNat(Or(ByteOf(Shl(h, hilo - cb)), l))
        ELSE 0

split(hi, lo, size, n) == [i \in 1..(size \div n) |-> splitCell(hi, lo, size, n, i)]

\* foldCell placing the cells of hi as if they were cells of lo
foldCell_nooffset(size, n, bytes, i) ==
    LET ca   == size - (i - 1) * n
        cb   == ca - n
        v    == And(NatByte(bytes[i]), Mask(n))
    IN  IF ca >= hilo /\ cb >= hilo THEN <<Shl(v, cb), Zero>>
        ELSE IF ca <= hilo /\ cb <= hilo THEN <<Zero, Shl(v, cb)>>
        ELSE IF ca > hilo /\ cb < hilo THEN <<Shr(v, hilo - cb), Shl(v, cb)>>
        ELSE <<Zero, Zero>>

\* <<hi, lo>> contributed by the i-th cell (from 1) in fold(size, n, bytes)
foldCell(size, n, bytes, i) ==
    LET ca   == size - (i - 1) * n
        cb   == ca - n
        v    == And(NatByte(bytes[i]), Mask(n))
    IN  IF ca >= hilo /\ cb >= hilo THEN <<Shl(v, cb - hilo), Zero>>
        ELSE IF ca <= hilo /\ cb <= hilo THEN <<Zero, Shl(v, cb)>>
        ELSE IF ca > hilo /\ cb < hilo THEN <<Shr(v, hilo - cb), Shl(v, cb)>>
        ELSE <<Zero, Zero>>

\* <<hi, lo>>; bytes must hold size/n cells (Go panics on a shorter slice)
fold(size, n, bytes) ==
    LET cells == [i \in 1..(size \div n) |-> foldCell(size, n, bytes, i)]
    IN  <<UNION {cells[i][1] : i \in DOMAIN cells}, UNION {cells[i][2] : i \in DOMAIN cells}>>

Split(n, uid) ==
    IF uid.Hi = Zero THEN split(Zero, uid.Lo, 64, n) ELSE split(uid.Hi, uid.Lo, 96, n)

FoldG(n, bytes) == LET f == fold(96, n, bytes) IN MkK(f[1], f[2])

FoldL(n, bytes) == LET f == fold(64, n, bytes) IN MkK(f[1], f[2])

Bytes(uid) ==
    IF uid.Hi = Zero THEN split(Zero, uid.Lo, 64, 8) ELSE split(uid.Hi, uid.Lo, 96, 8)

\* the results of the decoders: [k, err]
Ok(k) == [k |-> k, err |-> FALSE]

Malformed == [k |-> MkK(Zero, Zero), err |-> TRUE]

\* FromBytes taking the first 12 or the first 8 bytes of a longer slice
FromBytes_prefix(val) ==
    IF Len(val) >= bytesInG THEN Ok(FoldG(8, val))
    ELSE IF Len(val) >= bytesInL THEN Ok(FoldL(8, val))
    ELSE Malformed

FromBytes(val) ==
    IF Len(val) = bytesInG THEN Ok(FoldG(8, val))
    ELSE IF Len(val) = bytesInL THEN Ok(FoldL(8, val))
    ELSE Malformed

\* A character is its code point.  alphabet[i + 1] is the character of cell i.
alphabet ==
    <<46>> \o [i \in 1..10 |-> 47 + i] \o [i \in 1..26 |-> 64 + i]
           \o <<95>> \o [i \in 1..26 |-> 96 + i]

encode64(cells) == [i \in 1..Len(cells) |-> alphabet[cells[i] + 1]]

\* the cell of one character; a character outside the alphabet leaves the cell 0
decodeChar(x) ==
    IF x = 46 THEN 0
    ELSE IF x >= 48 /\ x <= 57 THEN (x - 48) + 1
    ELSE IF x >= 65 /\ x <= 90 THEN (x - 65) + 11
    ELSE IF x = 95 THEN 37
    ELSE IF x >= 97 /\ x <= 122 THEN (x - 97) + 38
    ELSE 0

decode64(val) == [i \in 1..16 |-> IF i <= Len(val) THEN decodeChar(val[i]) ELSE 0]

String(uid) ==
    encode64(IF uid.Hi = Zero THEN split(Zero, uid.Lo, 64, 4)
             ELSE split(uid.Hi, uid.Lo, 96, 6))

FromStringG(val) == IF Len(val) # 16 THEN Malformed ELSE Ok(FoldG(6, decode64(val)))

FromStringL(val) == IF Len(val) # 16 THEN Malformed ELSE Ok(FoldL(4, decode64(val)))

\* x < y in the lexicographic order of byte slices and of strings
LexLess(x, y) ==
    \E i \in 1..Len(y) :
        /\ i <= Len(x) + 1
        /\ \A j \in 1..(i - 1) : x[j] = y[j]
        /\ (i = Len(x) + 1 \/ x[i] < y[i])

(***************************************************************************)
(* The default clock (clock.go): location, ticker and the process-wide     *)
(* sequence generator uniqueInt                                            *)
(***************************************************************************)
\* uniqueInt keeping 13 bits of the counter
uniqueInt_13(u) == [unique |-> u + 1, seq |-> And(FromNat(u + 1), Mask(13))]

\* uniqueInt losing the store of the incremented counter
uniqueInt_lost(u) == [unique |-> u, seq |-> And(FromNat(u + 1), Mask(14))]

\* uniqueInt adding 2 to the counter
uniqueInt_twice(u) == [unique |-> u + 2, seq |-> And(FromNat(u + 2), Mask(14))]

\* uniqueInt: the counter after atomic.AddInt64(&unique, 1) and the value returned
uniqueInt(u) == [unique |-> u + 1, seq |-> And(FromNat(u + 1), Mask(14))]

\* WithNodeID: id & 0x00000000ffffffff
WithNodeID(id) == And(id, Mask(32))

None == [kind |-> "none"]

\* what a caller keeps of one allocation: the identifier and the values it was built from
Issued(kind, k, n, drift, t, s, call) ==
    [kind |-> kind, k |-> k, n |-> n, drift |-> drift, d |-> driftInBits(drift),
     t |-> t, s |-> s, call |-> call]

(***************************************************************************)
(* Spec: one process allocating global identifiers from its default clock, *)
(* long enough for the sequence to wrap                                    *)
(***************************************************************************)
MaxCalls == 16386

\* the times the ticker returns
Ticks == {W4(6146, 9029, 0, 1), W4(6146, 9029, 2, 1)}

Init ==
    /\ unique = 0
    /\ loc = WithNodeID(W4(65535, 65535, 43981, 4660))
    /\ bound \in {<<>>, <<Seconds(30)>>}
    /\ a = None
    /\ b = None
    /\ res = None
    /\ pc = "run"

\* G(clock, drift...): clock.T(), that is ticker() and uniqueInt(), then clock.L().
\* The caller keeps the first identifier as a and the latest as b.
CallG ==
    /\ pc = "run"
    /\ unique < MaxCalls
    /\ \E t \in Ticks :
          LET u  == uniqueInt(unique)
              id == Issued("G", G(loc, bound, <<t, u.seq>>), loc, bound, t,
                           u.seq, u.unique)
          IN  /\ unique' = u.unique
              /\ b' = id
              /\ a' = IF a = None THEN id ELSE a
    /\ UNCHANGED <<loc, bound, res, pc>>

Next == CallG

Spec == Init /\ [][Next]_vars

(***************************************************************************)
(* Byte slices and strings that no encoder of the package wrote            *)
(***************************************************************************)
\* the longest byte slice and the longest string given to the decoders
MaxBytes == 13
MaxChars == 17

\* slices of every length up to MaxBytes: all 0x00, all 0xff, all 'x', and a ramp
ByteInputs ==
    UNION {{[i \in 1..n |-> 0], [i \in 1..n |-> 255], [i \in 1..n |-> 120],
            [i \in 1..n |-> (i * 19) % 256]} : n \in 0..MaxBytes}

\* characters outside the alphabet: '!', '*', '-', '/', ':', '@', '[', '`', '{', '~'
\* and the byte 0xc8
Illegal == {33, 42, 45, 47, 58, 64, 91, 96, 123, 126, 200}

\* strings of every length up to MaxChars made of one character, and strings of 16
\* characters of the alphabet but for one
StringInputs ==
    UNION {{[i \in 1..n |-> c] : c \in {46, 48, 120, 122, 33, 42}} : n \in 0..MaxChars}
    \cup {[i \in 1..16 |-> IF i = at THEN c ELSE alphabet[i + 20]] :
             at \in {1, 8, 16}, c \in Illegal}

(***************************************************************************)
(* SpecOne: one identifier built from a configured clock                   *)
(* (NewClock(WithNodeID(n), WithClock(ticker), WithUnique(unique))), cast, *)
(* encoded and decoded                                                     *)
(***************************************************************************)
Nodes ==
    {Zero, FromNat(1), W4(0, 0, 32768, 0), W4(0, 0, 65535, 65535), W4(0, 0, 57005, 48879)}

\* absent, and one bound in each class of the drift table
AllDriftArgs ==
    {<<>>} \cup {<<Seconds(n)>> : n \in {30, 60, 130, 270, 540, 1000, 2100, 3600}}

\* 0, 2^17 - 1, 2^17, 2^35 - 1, 2^35, a UNIX time in nanoseconds, above 2^62, 2^64 - 1
Times ==
    {Zero, Mask(17), {17}, Mask(35), {35}, W4(6146, 9029, 2, 1), W4(16384, 1, 2, 3),
     Mask(64)}

\* values of the sequence generator: 0, 1, 0x3fff and, from a generator that does
\* not mask (WithUnique), 0x4001
Seqs == {Zero, FromNat(1), Mask(14), FromNat(16385)}

InitOne ==
    /\ unique = 0
    /\ loc \in Nodes
    /\ bound \in AllDriftArgs
    /\ a = None
    /\ b = None
    /\ res = None
    /\ pc = "start"

MakeZ ==
    /\ pc = "start"
    /\ a' = Issued("Z", Z(bound), Zero, bound, Zero, Zero, 0)
    /\ pc' = "made"
    /\ UNCHANGED <<unique, loc, bound, b, res>>

MakeG ==
    /\ pc = "start"
    /\ \E t \in Times, s \in Seqs :
          a' = Issued("G", G(loc, bound, <<t, s>>), loc, bound, t, s, 1)
    /\ pc' = "made"
    /\ UNCHANGED <<unique, loc, bound, b, res>>

MakeL ==
    /\ pc = "start"
    /\ \E t \in Times, s \in Seqs :
          a' = Issued("L", L(bound, <<t, s>>), loc, bound, t, s, 1)
    /\ pc' = "made"
    /\ UNCHANGED <<unique, loc, bound, b, res>>

MakeFromT ==
    /\ pc = "start"
    /\ \E t \in Times :
          a' = Issued("FromT", FromT(t, bound), Zero, bound, t, Zero, 0)
    /\ pc' = "made"
    /\ UNCHANGED <<unique, loc, bound, b, res>>

\* b is a cast of a: FromL with the clock, or ToL
CastFromL ==
    /\ pc = "made"
    /\ b' = Issued("FromL", FromL(loc, a.k), loc, a.drift, a.t, a.s, a.call)
    /\ pc' = "cast"
    /\ UNCHANGED <<unique, loc, bound, a, res>>

CastToL ==
    /\ pc = "made"
    /\ b' = Issued("ToL", ToL(a.k), a.n, a.drift, a.t, a.s, a.call)
    /\ pc' = "cast"
    /\ UNCHANGED <<unique, loc, bound, a, res>>

\* res is the cast back of b: ToL(FromL(clock, a))
CastBack ==
    /\ pc = "cast"
    /\ b.kind = "FromL"
    /\ res' = Issued("ToL", ToL(b.k), b.n, b.drift, b.t, b.s, b.call)
    /\ pc' = "back"
    /\ UNCHANGED <<unique, loc, bound, a, b>>

\* b is the distance of a from zero: Diff(a, Z(clock, drift)) for a global a,
\* Diff(a, ToL(Z(clock, drift))) for a local one
DiffZero ==
    /\ pc = "made"
    /\ a.kind \in {"G", "L"}
    /\ LET z == IF a.kind = "G" THEN Z(bound) ELSE ToL(Z(bound))
       IN  b' = Issued("Diff", Diff(a.k, z), a.n, a.drift, a.t, a.s, a.call)
    /\ pc' = "diffed"
    /\ UNCHANGED <<unique, loc, bound, a, res>>

\* the identifier the caller encodes: the cast if there is one
Held == IF pc = "cast" THEN b ELSE a

Encode ==
    /\ pc \in {"made", "cast"}
    /\ res' = [of |-> Held, bytes |-> Bytes(Held.k), str |-> String(Held.k)]
    /\ pc' = "encoded"
    /\ UNCHANGED <<unique, loc, bound, a, b>>

Decode ==
    /\ pc = "encoded"
    /\ res' = [of |-> res.of, bytes |-> res.bytes, str |-> res.str,
               fromBytes |-> FromBytes(res.bytes),
               fromStringG |-> FromStringG(res.str),
               fromStringL |-> FromStringL(res.str)]
    /\ pc' = "decoded"
    /\ UNCHANGED <<unique, loc, bound, a, b>>

\* the decoders on a byte slice or a string from elsewhere
DecodeForeign ==
    /\ pc = "start"
    /\ \E val \in ByteInputs \cup StringInputs :
          res' = [bytes |-> val, str |-> val, fromBytes |-> FromBytes(val),
                  fromStringG |-> FromStringG(val), fromStringL |-> FromStringL(val)]
    /\ pc' = "foreign"
    /\ UNCHANGED <<unique, loc, bound, a, b>>

NextOne ==
    \/ MakeZ
    \/ MakeG
    \/ MakeL
    \/ MakeFromT
    \/ CastFromL
    \/ CastToL
    \/ CastBack
    \/ DiffZero
    \/ Encode
    \/ Decode
    \/ DecodeForeign

SpecOne == InitOne /\ [][NextOne]_vars

(***************************************************************************)
(* SpecPair: two identifiers of the same kind and drift argument, from one *)
(* clock or from two clocks, and their encodings                           *)
(***************************************************************************)
PairNodes == {Zero, W4(0, 0, 1, 0), W4(0, 0, 65535, 65535)}

\* a UNIX time T0 in nanoseconds that starts a window of 2^35 ns
T0 == W4(6146, 9032, 0, 0)

\* 0, 2^17, T0, T0 + 1 ns, T0 + 30 s + 1 ns, T0 + 2^35 ns, T0 + 2^42 ns
PairTimes ==
    {Zero, {17}, T0, Add(T0, FromNat(1)), Add(T0, Add(Seconds(30), FromNat(1))),
     Add(T0, {35}), Add(T0, {42})}

PairSeqs == {FromNat(1), FromNat(2), Mask(14)}

CrossSeqs == {Zero, Mask(14)}

InitPair ==
    /\ unique = 0
    /\ loc \in PairNodes
    /\ bound \in AllDriftArgs
    /\ a = None
    /\ b = None
    /\ res = None
    /\ pc = "start"

\* a := G(clock, drift); b := G(clock, drift), the clock returning <<t1, s1>> then <<t2, s2>>
PairG ==
    /\ pc = "start"
    /\ \E t1 \in PairTimes, t2 \in PairTimes, s1 \in PairSeqs, s2 \in PairSeqs :
          /\ a' = Issued("G", G(loc, bound, <<t1, s1>>), loc, bound, t1, s1, 1)
          /\ b' = Issued("G", G(loc, bound, <<t2, s2>>), loc, bound, t2, s2, 2)
    /\ pc' = "made"
    /\ UNCHANGED <<unique, loc, bound, res>>

\* a := L(clock, drift); b := L(clock, drift)
PairL ==
    /\ pc = "start"
    /\ \E t1 \in PairTimes, t2 \in PairTimes, s1 \in PairSeqs, s2 \in PairSeqs :
          /\ a' = Issued("L", L(bound, <<t1, s1>>), loc, bound, t1, s1, 1)
          /\ b' = Issued("L", L(bound, <<t2, s2>>), loc, bound, t2, s2, 2)
    /\ pc' = "made"
    /\ UNCHANGED <<unique, loc, bound, res>>

\* a := G(clock, drift); b := G(other, drift), other a clock of another node
CrossG ==
    /\ pc = "start"
    /\ \E t1 \in PairTimes, t2 \in PairTimes, s1 \in CrossSeqs, s2 \in CrossSeqs,
          n2 \in PairNodes \ {loc} :
          /\ a' = Issued("G", G(loc, bound, <<t1, s1>>), loc, bound, t1, s1, 1)
          /\ b' = Issued("G", G(n2, bound, <<t2, s2>>), n2, bound, t2, s2, 1)
    /\ pc' = "made"
    /\ UNCHANGED <<unique, loc, bound, res>>

EncodePair ==
    /\ pc = "made"
    /\ res' = [bytesA |-> Bytes(a.k), bytesB |-> Bytes(b.k),
               strA |-> String(a.k), strB |-> String(b.k)]
    /\ pc' = "encoded"
    /\ UNCHANGED <<unique, loc, bound, a, b>>

\* d := guid.Diff(a, b)
DiffPair ==
    /\ pc = "made"
    /\ res' = [diff |-> Diff(a.k, b.k)]
    /\ pc' = "diffed"
    /\ UNCHANGED <<unique, loc, bound, a, b>>

NextPair ==
    \/ PairG
    \/ PairL
    \/ CrossG
    \/ EncodePair
    \/ DiffPair

SpecPair == InitPair /\ [][NextPair]_vars

(***************************************************************************)
(* The JSON codec of K (guid.go).  A JSON document is the sequence of its  *)
(* bytes.  Documents with escape sequences are not among the inputs.       *)
(***************************************************************************)
\* json.Unmarshal(b, &val) with val a string: null leaves val empty and is no error,
\* a string literal sets val, any other document is an error
jsonUnmarshalString(doc) ==
    IF doc = <<110, 117, 108, 108>> THEN [err |-> FALSE, val |-> <<>>]
    ELSE IF /\ Len(doc) >= 2
            /\ doc[1] = 34
            /\ doc[Len(doc)] = 34
            /\ \A i \in 2..(Len(doc) - 1) : doc[i] \notin {34, 92} /\ doc[i] >= 32
         THEN [err |-> FALSE, val |-> SubSeq(doc, 2, Len(doc) - 1)]
    ELSE [err |-> TRUE, val |-> <<>>]

\* json.Marshal of a string of characters that need no escape
jsonMarshalString(val) == <<34>> \o val \o <<34>>

\* the outcomes of UnmarshalJSON: the K left in the receiver and the error, or a panic
Unmarshalled(k, err) == [k |-> k, err |-> err, panic |-> FALSE]

Panic == [k |-> MkK(Zero, Zero), err |-> FALSE, panic |-> TRUE]

\* (uid *K) UnmarshalJSON(b) on a zero receiver; val[0] of an empty string is an
\* index out of range
UnmarshalJSON(doc) ==
    LET p == jsonUnmarshalString(doc)
    IN  IF p.err THEN Unmarshalled(MkK(Zero, Zero), TRUE)
        ELSE IF Len(p.val) = 0 THEN Panic
        ELSE IF p.val[1] = 42
          THEN LET r == FromStringG(Tail(p.val))
               IN  IF r.err THEN Unmarshalled(r.k, TRUE)
                   ELSE Unmarshalled(ToL(r.k), FALSE)
        ELSE LET r == FromStringG(p.val) IN Unmarshalled(r.k, r.err)

\* (uid K) MarshalJSON(), Clock being the process-wide default clock
MarshalJSON(Clock, uid) ==
    IF uid.Hi = Zero THEN jsonMarshalString(<<42>> \o String(FromL(Clock, uid)))
    ELSE jsonMarshalString(String(uid))

(***************************************************************************)
(* SpecJSON: an identifier marshalled and unmarshalled, and UnmarshalJSON  *)
(* given documents that MarshalJSON did not write                          *)
(***************************************************************************)
JsonNodes == {Zero, W4(0, 0, 65535, 65535)}

\* node ids of the process-wide default clock (WithNodeRandom)
DefaultNodes == {Zero, W4(0, 0, 57005, 48879), W4(0, 0, 65535, 65535)}

JsonSeqs == {Zero, FromNat(1), Mask(14)}

\* the longest string literal given to UnmarshalJSON
MaxJson == 18

\* 100, null, true, {}, an unterminated string, and string literals of every length
\* up to MaxJson made of 'x', of '*', and of '*' followed by 'x'
JsonInputs ==
    {<<49, 48, 48>>, <<110, 117, 108, 108>>, <<116, 114, 117, 101>>, <<123, 125>>,
     <<34, 120>>}
    \cup UNION {{jsonMarshalString([i \in 1..n |-> 120]),
                 jsonMarshalString([i \in 1..n |-> 42]),
                 jsonMarshalString([i \in 1..n |-> IF i = 1 THEN 42 ELSE 120])} :
                   n \in 0..MaxJson}

InitJSON ==
    /\ unique = 0
    /\ loc \in JsonNodes
    /\ bound \in AllDriftArgs
    /\ a = None
    /\ b = None
    /\ res = None
    /\ pc = "start"

\* val.G = guid.G(c, drift)
JsonG ==
    /\ pc = "start"
    /\ \E t \in Times, s \in JsonSeqs :
          a' = Issued("G", G(loc, bound, <<t, s>>), loc, bound, t, s, 1)
    /\ pc' = "made"
    /\ UNCHANGED <<unique, loc, bound, b, res>>

\* val.L = guid.L(c, drift)
JsonL ==
    /\ pc = "start"
    /\ \E t \in Times, s \in JsonSeqs :
          a' = Issued("L", L(bound, <<t, s>>), loc, bound, t, s, 1)
    /\ pc' = "made"
    /\ UNCHANGED <<unique, loc, bound, b, res>>

\* b, _ := json.Marshal(val)
Marshal ==
    /\ pc = "made"
    /\ \E n \in DefaultNodes : b' = [Clock |-> n, json |-> MarshalJSON(n, a.k)]
    /\ pc' = "marshalled"
    /\ UNCHANGED <<unique, loc, bound, a, res>>

\* err := json.Unmarshal(b, &x)
Unmarshal ==
    /\ pc = "marshalled"
    /\ res' = UnmarshalJSON(b.json)
    /\ pc' = "unmarshalled"
    /\ UNCHANGED <<unique, loc, bound, a, b>>

\* err := x.UnmarshalJSON(doc) on a document from elsewhere
UnmarshalInput ==
    /\ pc = "start"
    /\ \E doc \in JsonInputs :
          /\ b' = [Clock |-> Zero, json |-> doc]
          /\ res' = UnmarshalJSON(doc)
    /\ pc' = "input"
    /\ UNCHANGED <<unique, loc, bound, a>>

NextJSON ==
    \/ JsonG
    \/ JsonL
    \/ Marshal
    \/ Unmarshal
    \/ UnmarshalInput

SpecJSON == InitJSON /\ [][NextJSON]_vars

(***************************************************************************)
(* SpecT: goroutines calling T() of the default clock at the same time.    *)
(* T() evaluates clock.ticker() and then clock.unique(); the only step on  *)
(* shared memory is atomic.AddInt64(&unique, 1) inside uniqueInt, the mask *)
(* is applied to the value it returned                                     *)
(***************************************************************************)
Procs == 1..3

\* how many T() calls each goroutine makes
CallsEach == 2

\* the process-wide counter when the goroutines start: a fresh process, or one that
\* has made 2^14 - 3 calls already
Started == {0, (2 ^ bitsSeq) - 3}

InitT ==
    /\ unique \in Started
    /\ b = unique
    /\ loc = WithNodeID(W4(65535, 65535, 43981, 4660))
    /\ bound = <<>>
    /\ a = [p \in Procs |-> None]
    /\ res = {}
    /\ pc = [p \in Procs |-> "idle"]

\* the T() calls goroutine p has returned from
ReturnedTo(p) == {r \in res : r.p = p}

\* clock.ticker(): the goroutines run within one nanosecond of T0
TickerT(p) ==
    /\ pc[p] = "idle"
    /\ Cardinality(ReturnedTo(p)) < CallsEach
    /\ a' = [a EXCEPT ![p] = [t |-> T0]]
    /\ pc' = [pc EXCEPT ![p] = "ticked"]
    /\ UNCHANGED <<unique, loc, bound, b, res>>

\* clock.unique(), that is uniqueInt(): n is the value AddInt64 returned, s the
\* masked value uniqueInt returns
UniqueT(p) ==
    /\ pc[p] = "ticked"
    /\ LET u == uniqueInt(unique)
       IN  /\ unique' = u.unique
           /\ a' = [a EXCEPT ![p] = [t |-> a[p].t, n |-> u.unique, s |-> u.seq]]
    /\ pc' = [pc EXCEPT ![p] = "added"]
    /\ UNCHANGED <<loc, bound, b, res>>

\* T() returns (t, s) to its caller
ReturnT(p) ==
    /\ pc[p] = "added"
    /\ res' = res \cup {[p |-> p, t |-> a[p].t, n |-> a[p].n, s |-> a[p].s]}
    /\ pc' = [pc EXCEPT ![p] = "idle"]
    /\ UNCHANGED <<unique, loc, bound, a, b>>

NextT ==
    \/ \E p \in Procs : TickerT(p)
    \/ \E p \in Procs : UniqueT(p)
    \/ \E p \in Procs : ReturnT(p)

SpecT == InitT /\ [][NextT]_vars

(***************************************************************************)
(* SpecRun: three successive calls of G, or of L, on one clock built with  *)
(* NewClock(WithNodeID(0xffffffff), WithClock(func() uint64 { return tc }))*)
(* and the default sequence generator                                      *)
(***************************************************************************)
\* the times tc of the fixed ticker: 2^16, 2^17, 2^24, 2^32, 2^62 and T0
RunTimes == {{16}, {17}, {24}, {32}, {62}, T0}

\* the process-wide counter before the first call: a fresh process, or one whose
\* sequence is about to wrap
RunStarted == {0, (2 ^ bitsSeq) - 3, (2 ^ bitsSeq) - 2}

InitRun ==
    /\ unique \in RunStarted
    /\ loc = WithNodeID(W4(0, 0, 65535, 65535))
    /\ bound \in AllDriftArgs
    /\ a = None
    /\ b = None
    /\ res = None
    /\ pc = "start"

\* kind(clock, drift...) with the clock returning <<t, uniqueInt()>>
CallOf(kind, t, u, call) ==
    Issued(kind,
           IF kind = "G" THEN G(loc, bound, <<t, u.seq>>) ELSE L(bound, <<t, u.seq>>),
           loc, bound, t, u.seq, call)

\* a := guid.G(c, d)
FirstG ==
    /\ pc = "start"
    /\ \E t \in RunTimes :
          LET u == uniqueInt(unique)
          IN  /\ unique' = u.unique
              /\ a' = CallOf("G", t, u, 1)
    /\ pc' = "one"
    /\ UNCHANGED <<loc, bound, b, res>>

\* a := guid.L(c, d)
FirstL ==
    /\ pc = "start"
    /\ \E t \in RunTimes :
          LET u == uniqueInt(unique)
          IN  /\ unique' = u.unique
              /\ a' = CallOf("L", t, u, 1)
    /\ pc' = "one"
    /\ UNCHANGED <<loc, bound, b, res>>

\* b := the same call again
SecondCall ==
    /\ pc = "one"
    /\ LET u == uniqueInt(unique)
       IN  /\ unique' = u.unique
           /\ b' = CallOf(a.kind, a.t, u, 2)
    /\ pc' = "two"
    /\ UNCHANGED <<loc, bound, a, res>>

\* c := the same call a third time; the caller keeps it in res
ThirdCall ==
    /\ pc = "two"
    /\ LET u == uniqueInt(unique)
       IN  /\ unique' = u.unique
           /\ res' = CallOf(a.kind, a.t, u, 3)
    /\ pc' = "three"
    /\ UNCHANGED <<loc, bound, a, b>>

NextRun ==
    \/ FirstG
    \/ FirstL
    \/ SecondCall
    \/ ThirdCall

SpecRun == InitRun /\ [][NextRun]_vars

(***************************************************************************)
(* SpecDecode: the decoders given byte slices and strings that no encoder  *)
(* of the package wrote.  A string is the sequence of its bytes.           *)
(***************************************************************************)
InitDecode ==
    /\ unique = 0
    /\ loc = Zero
    /\ bound = <<>>
    /\ a = None
    /\ b = None
    /\ res = None
    /\ pc = "start"

\* k, err := guid.FromBytes(val)
DecodeBytes ==
    /\ pc = "start"
    /\ \E val \in ByteInputs : res' = [bytes |-> val, fromBytes |-> FromBytes(val)]
    /\ pc' = "bytes"
    /\ UNCHANGED <<unique, loc, bound, a, b>>

\* k, err := guid.FromStringG(val); k, err := guid.FromStringL(val)
DecodeString ==
    /\ pc = "start"
    /\ \E val \in StringInputs :
          res' = [str |-> val, fromStringG |-> FromStringG(val),
                  fromStringL |-> FromStringL(val)]
    /\ pc' = "string"
    /\ UNCHANGED <<unique, loc, bound, a, b>>

\* guid.Bytes(k) of the k that FromBytes returned
EncodeAgain ==
    /\ pc = "bytes"
    /\ ~res.fromBytes.err
    /\ res' = [bytes |-> res.bytes, fromBytes |-> res.fromBytes,
               again |-> Bytes(res.fromBytes.k)]
    /\ pc' = "again"
    /\ UNCHANGED <<unique, loc, bound, a, b>>

NextDecode ==
    \/ DecodeBytes
    \/ DecodeString
    \/ EncodeAgain

SpecDecode == InitDecode /\ [][NextDecode]_vars

(***************************************************************************)
(* SpecBits: the functions on bits (driftInBits, split, fold) applied to   *)
(* arguments at and around their boundaries                                *)
(***************************************************************************)
\* the thresholds of the drift table, in seconds
Thresholds == {34, 68, 137, 274, 549, 1099, 2199}

\* drift arguments: absent, 0, -1 ns, the least and the greatest time.Duration, and
\* every threshold and the nanosecond after it
DriftInputs ==
    {<<>>, <<Zero>>, <<Mask(64)>>, <<{63}>>, <<Mask(63)>>}
    \cup {<<Seconds(n)>> : n \in Thresholds}
    \cup {<<Add(Seconds(n), FromNat(1))>> : n \in Thresholds}

InitBits ==
    /\ unique = 0
    /\ loc = Zero
    /\ bound = <<>>
    /\ a = None
    /\ b = None
    /\ res = None
    /\ pc = "start"

\* driftInBits of two drift arguments
DriftPair ==
    /\ pc = "start"
    /\ \E x \in DriftInputs, y \in DriftInputs :
          /\ a' = [drift |-> x, d |-> driftInBits(x)]
          /\ b' = [drift |-> y, d |-> driftInBits(y)]
    /\ pc' = "drift"
    /\ UNCHANGED <<unique, loc, bound, res>>

\* words given to split: 0, 2^64 - 1, single bits at the ends and around the middle,
\* alternating bits, and two words of mixed digits
BitWords ==
    {Zero, Mask(64), {0}, {63}, {31}, {32}, W4(43690, 43690, 43690, 43690),
     W4(21845, 21845, 21845, 21845), W4(57005, 48879, 4660, 22136),
     W4(65244, 47768, 30292, 12819)}

\* <<size, n>>: 64 or 96 bits in cells of 4, 6 or 8 bits
Shapes == {<<64, 4>>, <<64, 8>>, <<96, 4>>, <<96, 6>>, <<96, 8>>}

\* cells := split(hi, lo, size, n); fold(size, n, cells)
SplitFold ==
    /\ pc = "start"
    /\ \E hi \in BitWords, lo \in BitWords, shape \in Shapes :
          LET cells == split(hi, lo, shape[1], shape[2])
          IN  res' = [hi |-> hi, lo |-> lo, size |-> shape[1], n |-> shape[2],
                      cells |-> cells, folded |-> fold(shape[1], shape[2], cells)]
    /\ pc' = "split"
    /\ UNCHANGED <<unique, loc, bound, a, b>>

NextBits ==
    \/ DriftPair
    \/ SplitFold

SpecBits == InitBits /\ [][NextBits]_vars

(***************************************************************************)
(* SpecFrame: a caller using every function of the package on one default  *)
(* clock whose ticker returns T0.  res names the function called last, how *)
(* often it called clock.T() and clock.L(), and what it returned           *)
(***************************************************************************)
\* how many identifiers the caller allocates
MaxFrame == 3

InitFrame ==
    /\ unique = 0
    /\ loc = WithNodeID(W4(65535, 65535, 43981, 4660))
    /\ bound \in {<<>>, <<Seconds(30)>>}
    /\ a = None
    /\ b = None
    /\ res = None
    /\ pc = "frame"

\* a = guid.G(clock, drift...): clock.T() and clock.L()
FrameG ==
    /\ unique < MaxFrame
    /\ LET u == uniqueInt(unique)
       IN  /\ unique' = u.unique
           /\ a' = Issued("G", G(loc, bound, <<T0, u.seq>>), loc, bound, T0, u.seq,
                          u.unique)
           /\ res' = [op |-> "G", T |-> 1, L |-> 1, out |-> a'.k]
    /\ UNCHANGED <<loc, bound, b, pc>>

\* a = guid.L(clock, drift...): clock.T()
FrameL ==
    /\ unique < MaxFrame
    /\ LET u == uniqueInt(unique)
       IN  /\ unique' = u.unique
           /\ a' = Issued("L", L(bound, <<T0, u.seq>>), loc, bound, T0, u.seq, u.unique)
           /\ res' = [op |-> "L", T |-> 1, L |-> 0, out |-> a'.k]
    /\ UNCHANGED <<loc, bound, b, pc>>

\* a = guid.Z(clock, drift...) or guid.FromT(t, drift...): the clock is not called
FrameMake ==
    /\ \E op \in {"Z", "FromT"} :
          /\ a' = IF op = "Z" THEN Issued("Z", Z(bound), Zero, bound, Zero, Zero, 0)
                  ELSE Issued("FromT", FromT(T0, bound), Zero, bound, T0, Zero, 0)
          /\ res' = [op |-> op, T |-> 0, L |-> 0, out |-> a'.k]
    /\ UNCHANGED <<unique, loc, bound, b, pc>>

\* guid.FromL(clock, a), which calls clock.L() when a.Hi = 0, or guid.ToL(a)
FrameCast ==
    /\ a # None
    /\ \E op \in {"FromL", "ToL"} :
          res' = [op |-> op, T |-> 0,
                  L |-> IF op = "FromL" /\ a.k.Hi = Zero THEN 1 ELSE 0,
                  out |-> IF op = "FromL" THEN FromL(loc, a.k) ELSE ToL(a.k)]
    /\ UNCHANGED <<unique, loc, bound, a, b, pc>>

\* Diff, Equal, Before, After of a and zero, and Time, Node, Seq of a
FrameRead ==
    /\ a # None
    /\ \E op \in {"Diff", "Equal", "Before", "After", "Time", "Node", "Seq"} :
          res' = [op |-> op, T |-> 0, L |-> 0,
                  out |-> CASE op = "Diff" -> Diff(a.k, Z(bound))
                            [] op = "Equal" -> Equal(a.k, Z(bound))
                            [] op = "Before" -> Before(a.k, Z(bound))
                            [] op = "After" -> After(a.k, Z(bound))
                            [] op = "Time" -> Time(a.k)
                            [] op = "Node" -> Node(a.k)
                            [] op = "Seq" -> SeqOf(a.k)]
    /\ UNCHANGED <<unique, loc, bound, a, b, pc>>

\* Bytes and String of a, and the decoders on them
FrameCodec ==
    /\ a # None
    /\ \E op \in {"Bytes", "String", "FromBytes", "FromStringG", "FromStringL"} :
          res' = [op |-> op, T |-> 0, L |-> 0,
                  out |-> CASE op = "Bytes" -> Bytes(a.k)
                            [] op = "String" -> String(a.k)
                            [] op = "FromBytes" -> FromBytes(Bytes(a.k))
                            [] op = "FromStringG" -> FromStringG(String(a.k))
                            [] op = "FromStringL" -> FromStringL(String(a.k))]
    /\ UNCHANGED <<unique, loc, bound, a, b, pc>>

NextFrame ==
    \/ FrameG
    \/ FrameL
    \/ FrameMake
    \/ FrameCast
    \/ FrameRead
    \/ FrameCodec

SpecFrame == InitFrame /\ [][NextFrame]_vars

(***************************************************************************)
(* Properties                                                              *)
(***************************************************************************)
\* 2^14 as a word: the sequence values are below it
SeqLimit == {bitsSeq}

\* (t >> 17) << 17
Truncated(t) == Shl(Shr(t, bitsSeqDrift), bitsSeqDrift)

\* C1: two identifiers built by G for one clock with the same drift class, from two
\* different T() calls fewer than 16384 calls apart whose times do not decrease,
\* are not Equal.
C1_Unique ==
    (/\ a # None
     /\ a.call # b.call
     /\ b.call - a.call < 2 ^ bitsSeq
     /\ a.d = b.d
     /\ Le(a.t, b.t))
    => ~Equal(a.k, b.k)

\* the first call and the call 16383 calls later, at the same clock time
C1_Witness == a # None /\ b.call - a.call = (2 ^ bitsSeq) - 1 /\ a.t = b.t /\ a.d = driftZ

\* C10: the sequence values T() returned at two different calls are different,
\* however many calls were made.
C10_NeverRepeats == (a # None /\ a.call # b.call) => a.s # b.s

\* C2: a built before b, both by G or both by L on one clock with one drift class,
\* with t_a <= t_b and s_a < s_b < 2^14: Before(a,b) and After(b,a) hold, and
\* Equal(a,b), Before(b,a) and After(a,b) do not.
C2_AllocationOrder ==
    (/\ a # None
     /\ a.kind = b.kind
     /\ a.n = b.n
     /\ a.call < b.call
     /\ Le(a.t, b.t)
     /\ Lt(a.s, b.s)
     /\ Lt(b.s, SeqLimit))
    => /\ Before(a.k, b.k)
       /\ After(b.k, a.k)
       /\ ~Equal(a.k, b.k)
       /\ ~Before(b.k, a.k)
       /\ ~After(a.k, b.k)

\* two G of one clock in one millisecond, in the widest drift class, from the
\* node 0xffffffff
C2_Witness ==
    /\ a # None
    /\ a.kind = "G" /\ b.kind = "G"
    /\ a.call < b.call
    /\ a.d = driftZ + 7
    /\ a.n = W4(0, 0, 65535, 65535)
    /\ a.t = T0 /\ b.t = Add(T0, FromNat(1))
    /\ Lt(a.s, b.s)

\* C3, as claimed: for a bound B and two G built with it from two clocks, t_b - t_a > B
\* implies Before(a,b), whatever the node ids and sequences.
C3_BeyondBound ==
    (/\ a # None
     /\ a.kind = "G" /\ b.kind = "G"
     /\ Len(a.drift) = 1
     /\ Le(a.t, b.t)
     /\ Lt(a.drift[1], Sub(b.t, a.t)))
    => Before(a.k, b.k)

\* C3, amended: for a bound B, d = driftInBits(B) and two G built with it from two
\* clocks, t_b - t_a >= 2^(d+17) ns implies Before(a,b), whatever the node ids and
\* sequences.
C3_BeyondWindow ==
    (/\ a # None
     /\ a.kind = "G" /\ b.kind = "G"
     /\ Len(a.drift) = 1
     /\ Le(a.t, b.t)
     /\ Le({a.d + bitsSeqDrift}, Sub(b.t, a.t)))
    => Before(a.k, b.k)

\* the later identifier comes from the smaller node, exactly one window after the
\* earlier one, which carries the larger sequence
C3_Witness ==
    /\ a # None
    /\ a.kind = "G" /\ b.kind = "G"
    /\ Len(a.drift) = 1
    /\ Lt(b.n, a.n)
    /\ Lt(b.s, a.s)
    /\ Sub(b.t, a.t) = {a.d + bitsSeqDrift}

\* C4: FromBytes(Bytes(K)) returns no error and a value Equal to K, for K of Z, G, L,
\* FromT, FromL and ToL (sequence below 2^14).
C4_BytesRoundTrip ==
    (pc = "decoded" /\ Lt(res.of.s, SeqLimit))
    => (~res.fromBytes.err /\ Equal(res.fromBytes.k, res.of.k))

\* a global identifier cast by FromL from a local one went through 12 bytes
C4_Witness ==
    /\ pc = "decoded"
    /\ res.of.kind = "FromL"
    /\ a.kind = "L"
    /\ Len(res.bytes) = bytesInG
    /\ res.of.n = W4(0, 0, 57005, 48879)
    /\ Lt(res.of.s, SeqLimit)

\* C5: FromStringG(String(a)) returns no error and a value Equal to a for a of G, and
\* FromStringL(String(b)) does for b of L or FromT (sequence below 2^14).
C5_TextRoundTrip ==
    (pc = "decoded" /\ Lt(res.of.s, SeqLimit))
    => /\ res.of.kind = "G"
          => (~res.fromStringG.err /\ Equal(res.fromStringG.k, res.of.k))
       /\ res.of.kind \in {"L", "FromT"}
          => (~res.fromStringL.err /\ Equal(res.fromStringL.k, res.of.k))

\* C6: for a, b built by G on one clock with one drift class, t_a <= t_b and
\* s_a < s_b < 2^14: Before(a,b) iff Bytes(a) < Bytes(b) iff String(a) < String(b),
\* both lexicographically.
C6_EncodedOrder ==
    (/\ pc = "encoded"
     /\ a.kind = "G" /\ b.kind = "G"
     /\ a.n = b.n
     /\ a.call < b.call
     /\ Le(a.t, b.t)
     /\ Lt(a.s, b.s)
     /\ Lt(b.s, SeqLimit))
    => /\ Before(a.k, b.k) <=> LexLess(res.bytesA, res.bytesB)
       /\ Before(a.k, b.k) <=> LexLess(res.strA, res.strB)

\* C7: K = G(clock, drift) built from (n, d, t, s), s < 2^14, has Node(K) = n,
\* Time(K) = (t >> 17) << 17 and Seq(K) = s.
C7_LensesOfG ==
    (a # None /\ a.kind = "G" /\ Lt(a.s, SeqLimit))
    => /\ Node(a.k) = a.n
       /\ Time(a.k) = Truncated(a.t)
       /\ SeqOf(a.k) = a.s

\* C8: K = L(clock, drift) built from (d, t, s), s < 2^14, has Hi = 0,
\* Lo >> 61 = d - 18, Time(K) = (t >> 17) << 17, Seq(K) = s and Node(K) = 0.
C8_LensesOfL ==
    (a # None /\ a.kind = "L" /\ Lt(a.s, SeqLimit))
    => /\ a.k.Hi = Zero
       /\ Shr(a.k.Lo, 61) = FromNat(a.d - driftZ)
       /\ Time(a.k) = Truncated(a.t)
       /\ SeqOf(a.k) = a.s
       /\ Node(a.k) = Zero

\* L in the widest drift class, at the largest time and sequence
C8_Witness ==
    /\ a # None
    /\ a.kind = "L"
    /\ a.d = driftZ + 7
    /\ a.t = Mask(64)
    /\ a.s = Mask(bitsSeq)

\* C9: an identifier G returned has a non-zero Hi and 12 bytes, one L returned has a
\* zero Hi and 8 bytes.
C9_GlobalOrLocal ==
    (pc = "encoded" /\ res.of.kind \in {"G", "L"})
    => IF res.of.kind = "G"
       THEN res.of.k.Hi # Zero /\ Len(res.bytes) = bytesInG
       ELSE res.of.k.Hi = Zero /\ Len(res.bytes) = bytesInL

\* the calls that are past their AddInt64: returned, or about to return
Incremented ==
    res \cup {[p |-> p, t |-> a[p].t, n |-> a[p].n, s |-> a[p].s] :
                 p \in {q \in Procs : pc[q] = "added"}}

\* C11: under every interleaving of concurrent T() calls on the default clock no
\* increment is lost (the counter has advanced by exactly the number of calls that
\* are past their increment, and each of them got a counter value of its own), and
\* calls whose increments are fewer than 2^14 apart return distinct 14-bit
\* sequence values
C11_ConcurrentT ==
    /\ unique - b = Cardinality(Incremented)
    /\ {r.n : r \in Incremented} = (b + 1)..unique
    /\ \A x \in Incremented, y \in Incremented :
          (x # y /\ x.n - y.n < 2 ^ bitsSeq /\ y.n - x.n < 2 ^ bitsSeq) =>
             /\ x.s # y.s
             /\ x.s \subseteq Mask(bitsSeq)

\* three goroutines are past their increment at once, after other calls returned, and
\* the sequence wrapped among them
C11_Witness ==
    /\ \A p \in Procs : pc[p] = "added"
    /\ Cardinality(res) = 3
    /\ \E x \in Incremented : x.s = Zero
    /\ \E x \in Incremented : x.s = Mask(bitsSeq)

\* C12 (as stated): after two consecutive G calls, or two consecutive L calls, on one
\* clock, Seq(b) - Seq(a) = 1 in unsigned 64-bit arithmetic
C12_SeqStep ==
    /\ pc \in {"two", "three"} => Sub(SeqOf(b.k), SeqOf(a.k)) = FromNat(1)
    /\ pc = "three" => Sub(SeqOf(res.k), SeqOf(b.k)) = FromNat(1)

\* C12 (amended): the difference is 1 modulo 2^14: it is 1 in unsigned 64-bit
\* arithmetic unless Seq(a) = 0x3fff, and then Seq(b) = 0
C12_SeqStepMod ==
    LET Step(x, y) ==
           /\ And(Sub(SeqOf(y.k), SeqOf(x.k)), Mask(bitsSeq)) = FromNat(1)
           /\ SeqOf(x.k) # Mask(bitsSeq) => Sub(SeqOf(y.k), SeqOf(x.k)) = FromNat(1)
           /\ SeqOf(x.k) = Mask(bitsSeq) => SeqOf(y.k) = Zero
    IN  /\ pc \in {"two", "three"} => Step(a, b)
        /\ pc = "three" => Step(b, res)

\* three global identifiers whose sequence wrapped between the second and the third
C12_Witness ==
    /\ pc = "three"
    /\ a.kind = "G"
    /\ SeqOf(b.k) = Mask(bitsSeq)
    /\ SeqOf(res.k) = Zero

\* the scenario: L on a clock whose T() returns (1 << 17, n) for n = 1, 2, 3
LocalMonotonic ==
    /\ pc = "three"
    /\ a.kind = "L"
    /\ a.t = {17}
    /\ a.s = FromNat(1)

\* C20 (as stated): in the scenario, Before(a,b), Before(b,c), Seq = 1, 2, 3 and
\* Time(a) = Time(b) = Time(c) = 0
C20_LocalMonotonic ==
    LocalMonotonic =>
       /\ Before(a.k, b.k) /\ Before(b.k, res.k)
       /\ SeqOf(a.k) = FromNat(1) /\ SeqOf(b.k) = FromNat(2) /\ SeqOf(res.k) = FromNat(3)
       /\ Time(a.k) = Zero /\ Time(b.k) = Zero /\ Time(res.k) = Zero

\* C20 (amended): in the scenario, Before(a,b), Before(b,c), Seq = 1, 2, 3 and
\* Time(a) = Time(b) = Time(c) = 1 << 17
C20_LocalMonotonicTime ==
    LocalMonotonic =>
       /\ Before(a.k, b.k) /\ Before(b.k, res.k)
       /\ SeqOf(a.k) = FromNat(1) /\ SeqOf(b.k) = FromNat(2) /\ SeqOf(res.k) = FromNat(3)
       /\ Time(a.k) = {17} /\ Time(b.k) = {17} /\ Time(res.k) = {17}

\* the scenario with L(clock), no drift argument
C20_Witness == LocalMonotonic /\ bound = <<>> /\ res.s = FromNat(3)

\* the unsigned number that bytes[from..to] spell, most significant byte first
BigEndian(bytes, from, to) ==
    UNION {Shl(NatByte(bytes[i]), 8 * (to - i)) : i \in from..to}

\* C13: FromBytes on a slice whose length is neither 8 nor 12 returns the error and
\* the zero K; on 8 bytes it returns, with no error, the local K (Hi = 0) whose Lo
\* the bytes spell; on 12 bytes it returns, with no error, the K whose Hi the first
\* 4 bytes and whose Lo the last 8 bytes spell
C13_FromBytes ==
    pc = "bytes" =>
       LET val == res.bytes
           out == res.fromBytes
       IN  /\ Len(val) \notin {bytesInL, bytesInG} =>
                out.err /\ out.k = MkK(Zero, Zero)
           /\ Len(val) = bytesInL =>
                ~out.err /\ out.k.Hi = Zero /\ out.k.Lo = BigEndian(val, 1, 8)
           /\ Len(val) = bytesInG =>
                ~out.err /\ out.k.Hi = BigEndian(val, 1, 4)
                         /\ out.k.Lo = BigEndian(val, 5, 12)

\* 13 bytes were refused
C13_Witness ==
    /\ pc = "bytes"
    /\ Len(res.bytes) = bytesInG + 1
    /\ res.bytes[1] = 255
    /\ res.fromBytes.err

\* the characters of the alphabet
Legal == {alphabet[i] : i \in 1..64}

\* C14: FromStringG and FromStringL return the error for every string whose length
\* is not 16 and for every string of 16 characters one of which is outside the
\* alphabet
C14_RejectsIllegal ==
    pc = "string" =>
       ((Len(res.str) # 16 \/ \E i \in 1..Len(res.str) : res.str[i] \notin Legal)
          => res.fromStringG.err /\ res.fromStringL.err)

\* C15: UnmarshalJSON never panics, whatever the document: a value that is not a
\* string, the empty string, a string of any length, with or without the leading '*'
C15_NoPanic == pc \in {"input", "unmarshalled"} => ~res.panic

\* C16: unmarshalling the output of MarshalJSON of a K returned by G or by L returns
\* no error and a value equal to K, whatever the node id of the default Clock
C16_JsonRoundTrip ==
    pc = "unmarshalled" => ~res.panic /\ ~res.err /\ Equal(res.k, a.k)

\* C17: Diff against zero is the identity: for a = G(clock, drift) and
\* z = Z(clock, drift), Diff(a, z) is Equal to a and has the Time, Seq and Node of a;
\* for a = L(clock, drift) and z = ToL(Z(clock, drift)), Diff(a, z) is Equal to a
C17_DiffZero ==
    pc = "diffed" =>
       /\ Equal(b.k, a.k)
       /\ a.kind = "G" =>
             /\ Time(b.k) = Time(a.k)
             /\ SeqOf(b.k) = SeqOf(a.k)
             /\ Node(b.k) = Node(a.k)

\* C18: for K returned by G or L and a clock c, ToL(FromL(c, K)) has the Time and
\* the Seq of K
C18_ToLFromL ==
    (pc = "back" /\ a.kind \in {"G", "L"}) =>
       /\ Time(res.k) = Time(a.k)
       /\ SeqOf(res.k) = SeqOf(a.k)

\* Before is the strict lexicographic order and After its converse, for x and y
Lexicographic(x, y) ==
    /\ (IF Before(x, y) THEN 1 ELSE 0) + (IF Equal(x, y) THEN 1 ELSE 0)
          + (IF After(x, y) THEN 1 ELSE 0) = 1
    /\ Before(x, y) <=> After(y, x)
    /\ Before(x, y) <=> (Lt(x.Hi, y.Hi) \/ (x.Hi = y.Hi /\ Lt(x.Lo, y.Lo)))
    /\ Lt(x.Hi, y.Hi) => Before(x, y)

\* C19: for all identifiers a, b exactly one of Before(a,b), Equal(a,b), After(a,b)
\* holds, Before(a,b) iff After(b,a), and Before(a,b) whenever a.Hi < b.Hi, even if
\* a.Lo >= b.Lo
C19_Lexicographic ==
    pc \in {"made", "encoded"} => Lexicographic(a.k, b.k) /\ Lexicographic(b.k, a.k)

\* a.Hi < b.Hi and a.Lo > b.Lo
C19_Witness ==
    /\ pc = "made"
    /\ Lt(a.k.Hi, b.k.Hi)
    /\ Lt(b.k.Lo, a.k.Lo)
    /\ Before(a.k, b.k)

\* the drift class the table gives a bound of ns nanoseconds (a signed number): the
\* number of thresholds below it, from 18
TableOf(ns) == driftZ + Cardinality({n \in Thresholds : ~SLe(ns, Seconds(n))})

\* C21: driftInBits follows the drift table: no bound gives 21, a bound <= 34 s gives
\* 18, <= 68 s 19, <= 137 s 20, <= 274 s 21, <= 549 s 22, <= 1099 s 23, <= 2199 s 24,
\* a larger bound 25; the result is in 18..25 and is non-decreasing in the bound
C21_DriftTable ==
    pc = "drift" =>
       /\ \A x \in {a, b} :
             /\ x.d \in 18..25
             /\ x.d - driftZ < 2 ^ bitsDrift
             /\ x.drift = <<>> => x.d = 21
             /\ x.drift # <<>> => x.d = TableOf(x.drift[1])
             /\ (x.drift # <<>> /\ SLe(x.drift[1], Seconds(34))) => x.d = 18
             /\ (x.drift # <<>> /\ ~SLe(x.drift[1], Seconds(2199))) => x.d = 25
       /\ (a.drift # <<>> /\ b.drift # <<>> /\ SLe(a.drift[1], b.drift[1])) => a.d <= b.d

\* a negative bound and the bound one nanosecond above 34 s
C21_Witness ==
    /\ pc = "drift"
    /\ a.drift = <<Mask(64)>>
    /\ a.d = 18
    /\ b.drift = <<Add(Seconds(34), FromNat(1))>>
    /\ b.d = 19

\* the bits [from, from + n) of hi||lo as a number, bit 64 + k of hi||lo being bit k
\* of hi
BitsOf(hi, lo, from, n) ==
    ByteNat({j \in 0..(n - 1) :
               IF from + j < hilo THEN (from + j) \in lo ELSE (from + j - hilo) \in hi})

\* C27: split writes size/n cells, cell i (from 0) holding the bits
\* [size - (i+1)n, size - i*n) of hi||lo, the cell across hi and lo included, and
\* fold of the cells is (hi mod 2^(size - 64), lo)
C27_SplitFold ==
    pc = "split" =>
       /\ Len(res.cells) = res.size \div res.n
       /\ \A i \in 0..(Len(res.cells) - 1) :
             res.cells[i + 1] = BitsOf(res.hi, res.lo, res.size - (i + 1) * res.n, res.n)
       /\ res.folded = <<And(res.hi, Mask(res.size - hilo)), res.lo>>

\* 96 bits in cells of 6, all bits of hi and the top bit of lo set: the cell across
\* hi and lo holds the two low bits of hi above that bit of lo
C27_Witness ==
    /\ pc = "split"
    /\ res.size = 96
    /\ res.n = 6
    /\ res.hi = Mask(64)
    /\ res.lo = {63}
    /\ res.cells[6] = 56

\* the identifiers a state of SpecOne holds: made, cast, cast back, the distance from
\* zero, and decoded
HeldKs ==
    (IF a # None THEN {a.k} ELSE {})
    \cup (IF b # None THEN {b.k} ELSE {})
    \cup (IF pc = "back" THEN {res.k} ELSE {})
    \cup (IF pc \in {"decoded", "foreign"} THEN {res.fromBytes.k, res.fromStringG.k}
          ELSE {})

\* C22: every K returned by Z, G, L, FromT, FromL, ToL or Diff from a clock whose node
\* id is below 2^32, and every K returned by FromBytes or FromStringG, has Hi < 2^32,
\* so the drift class (Hi >> 29) + 18 is in 18..25
C22_Only96Bits ==
    \A k \in HeldKs : Lt(k.Hi, {32}) /\ driftOfG(k) \in 18..25

\* a string of 16 'z' decoded: Hi = 2^32 - 1 and drift class 25
C22_Witness ==
    /\ pc = "foreign"
    /\ ~res.fromStringG.err
    /\ res.fromStringG.k.Hi = Mask(32)
    /\ driftOfG(res.fromStringG.k) = 25

\* C23: for two identifiers a, b built by G with the same drift class d from clocks
\* with any node ids and sequences, (t_b >> 17) - (t_a >> 17) >= 2^d implies
\* Before(a,b)
C23_TimeOutranksNode ==
    (/\ pc \in {"made", "encoded"}
     /\ a.kind = "G" /\ b.kind = "G"
     /\ a.d = b.d
     /\ Le(Shr(a.t, bitsSeqDrift), Shr(b.t, bitsSeqDrift))
     /\ Le({a.d}, Sub(Shr(b.t, bitsSeqDrift), Shr(a.t, bitsSeqDrift))))
    => Before(a.k, b.k)

\* drift class 18, the later identifier from the smaller node and 2^35 - 1 ns after
\* the earlier one, in the next window
C23_Witness ==
    /\ pc = "made"
    /\ a.kind = "G" /\ b.kind = "G"
    /\ a.d = driftZ
    /\ Lt(b.n, a.n)
    /\ Sub(b.t, a.t) = Mask(35)
    /\ Before(a.k, b.k)

\* C24: for a, b both returned by G, or both by L, with the same drift class,
\* Time(a) >= Time(b) and Seq(a) >= Seq(b), d = Diff(a, b) has
\* Time(d) = Time(a) - Time(b), Seq(d) = Seq(a) - Seq(b), the drift class of a and,
\* for globals, Node(d) = Node(a)
C24_DiffSameKind ==
    (/\ pc = "diffed"
     /\ a.kind = b.kind
     /\ a.d = b.d
     /\ Le(Time(b.k), Time(a.k))
     /\ Le(SeqOf(b.k), SeqOf(a.k)))
    => /\ Time(res.diff) = Sub(Time(a.k), Time(b.k))
       /\ SeqOf(res.diff) = Sub(SeqOf(a.k), SeqOf(b.k))
       /\ a.kind = "L" => driftOfL(res.diff) = a.d
       /\ a.kind = "G" => driftOfG(res.diff) = a.d /\ Node(res.diff) = Node(a.k)

\* C25: for K returned by L or FromT and a clock c with node id below 2^32,
\* FromL(c, K) has Node = c.L() and the drift class, the Time and the Seq of K
C25_FromLLifts ==
    (pc = "cast" /\ b.kind = "FromL" /\ a.kind \in {"L", "FromT"})
    => /\ Node(b.k) = loc
       /\ driftOfG(b.k) = driftOfL(a.k)
       /\ Time(b.k) = Time(a.k)
       /\ SeqOf(b.k) = SeqOf(a.k)

C28_BytesOfFromBytes ==
    /\ (pc = "bytes" /\ Len(res.bytes) \in {bytesInL, bytesInG}) => ~res.fromBytes.err
    /\ pc = "again" => res.again = res.bytes

\* C29: G and L each call clock.T() once and clock.L() at most once and advance the
\* sequence counter by exactly one; every other function calls no T() and leaves the
\* counter as it was; no function changes the node id of the clock
C29_ClockFrame ==
    [][/\ loc' = loc
       /\ res'.op \in {"G", "L"} =>
             /\ unique' = unique + 1
             /\ res'.T = 1
             /\ res'.L <= 1
             /\ SeqOf(res'.out) = And(FromNat(unique'), Mask(bitsSeq))
       /\ res'.op \notin {"G", "L"} =>
             /\ unique' = unique
             /\ res'.T = 0
             /\ a'.kind \in {"Z", "FromT"} \/ a' = a]_vars

\* two allocations, then FromL of a local identifier: the counter is still 2
C29_Witness ==
    /\ pc = "frame"
    /\ unique = 2
    /\ a # None
    /\ a.kind = "L"
    /\ res.op = "FromL"
    /\ res.L = 1

\* the identifier a would be had the clock returned the sequence 0
WithSeqZero ==
    IF a.kind = "G" THEN G(a.n, a.drift, <<a.t, Zero>>) ELSE L(a.drift, <<a.t, Zero>>)

\* the drift class an identifier carries
DriftClass(k) == IF k.Hi = Zero THEN driftOfL(k) ELSE driftOfG(k)

\* C30: for a clock whose T() returns any 64-bit sequence value s, the identifier K
\* that G or L returns has Seq(K) = s mod 2^14, and the Time, the Node and the drift
\* class it has for s = 0
C30_SeqDoesNotLeak ==
    (a # None /\ a.kind \in {"G", "L"})
    => /\ SeqOf(a.k) = And(a.s, Mask(bitsSeq))
       /\ Time(a.k) = Time(WithSeqZero)
       /\ Node(a.k) = Node(WithSeqZero)
       /\ DriftClass(a.k) = DriftClass(WithSeqZero)
====
